---- MODULE Spec2Model ----
(***************************************************************************)
(* A model of sportschau_bl_data.sportschau.Sportschau: construction,      *)
(* season/URL discovery, the per-season fetch and merge, and the CSV       *)
(* cache (save_data / load_data).                                          *)
(*                                                                         *)
(* Python strings whose characters the code inspects (competition ids,     *)
(* season labels, file names, CSV cells) are sequences of one-character    *)
(* strings, so that str.replace, str.split, `in` and Path.stem are         *)
(* computed character by character.  Column names and URL path segments,   *)
(* which the code only compares and concatenates, are TLA+ strings.        *)
(***************************************************************************)
EXTENDS Integers, Sequences, FiniteSets, TLC

\* ------------------------------------------------------------------ bounds
\* Number of methods called on the collector in one behaviour.
MaxOps == 3
\* Number of those calls that are calls of read_seasons.
MaxReads == 2
\* Longest explicit season list passed to read_seasons.
MaxReq == 2

\* ------------------------------------------------------- character strings
Y2016 == <<"2", "0", "1", "6">>
Y2017 == <<"2", "0", "1", "7">>
Y2018 == <<"2", "0", "1", "8">>
Y2019 == <<"2", "0", "1", "9">>
Y2020 == <<"2", "0", "2", "0">>
Y2021 == <<"2", "0", "2", "1">>
Y2022 == <<"2", "0", "2", "2">>
Y2023 == <<"2", "0", "2", "3">>
Y2024 == <<"2", "0", "2", "4">>

SeasonLabel(a, b) == a \o <<"/">> \o b

GER1 == <<"G", "E", "R", "1">>
GER2 == <<"G", "E", "R", "2">>
GER3 == <<"G", "E", "R", "3">>
Unknown_Comp == <<"U", "n", "k", "n", "o", "w", "n", "_", "C", "o", "m", "p">>

DigitChars == <<"0", "1", "2", "3", "4", "5", "6", "7", "8", "9">>

IsDigit(c) == \E i \in 1..Len(DigitChars) : DigitChars[i] = c

\* str(n) of a non-negative int
RECURSIVE IntToStr(_)
IntToStr(n) ==
    IF n < 10 THEN <<DigitChars[n + 1]>>
    ELSE IntToStr(n \div 10) \o <<DigitChars[(n % 10) + 1]>>

DigitValue(c) == (CHOOSE i \in 1..Len(DigitChars) : DigitChars[i] = c) - 1

\* int(s) of a string of decimal digits
RECURSIVE StrToInt(_)
StrToInt(s) ==
    IF Len(s) = 0 THEN 0
    ELSE 10 * StrToInt(SubSeq(s, 1, Len(s) - 1)) + DigitValue(s[Len(s)])

\* s.replace(old, new) for one-character old and new
Replace(s, old, new) == [i \in 1..Len(s) |-> IF s[i] = old THEN new ELSE s[i]]

\* s.split(sep) for a one-character sep
RECURSIVE SplitFrom(_, _, _)
SplitFrom(s, sep, cur) ==
    IF Len(s) = 0 THEN <<cur>>
    ELSE IF Head(s) = sep THEN <<cur>> \o SplitFrom(Tail(s), sep, <<>>)
    ELSE SplitFrom(Tail(s), sep, Append(cur, Head(s)))

Split(s, sep) == SplitFrom(s, sep, <<>>)

\* `sub in s` on strings
Contains(s, sub) ==
    \E i \in 1..(Len(s) - Len(sub) + 1) : SubSeq(s, i, i + Len(sub) - 1) = sub

CsvSuffix == <<".", "c", "s", "v">>

\* Path.glob("*.csv")
MatchesCsvGlob(name) ==
    /\ Len(name) >= Len(CsvSuffix)
    /\ SubSeq(name, Len(name) - Len(CsvSuffix) + 1, Len(name)) = CsvSuffix

\* Path.stem: the name without its last suffix
Stem(name) ==
    LET dots == {i \in 2..Len(name) : name[i] = "."}
    IN  IF dots = {} THEN name
        ELSE SubSeq(name, 1, (CHOOSE i \in dots : \A j \in dots : j <= i) - 1)

\* --------------------------------------------------------- module constants
COMPS_keys == <<GER1, GER2>>

InCOMPS(id) == \E i \in 1..Len(COMPS_keys) : COMPS_keys[i] = id

\* COMPS.get(id)
COMPS_get(id) ==
    CASE id = GER1 -> "deutschland-bundesliga"
      [] id = GER2 -> "deutschland-2-bundesliga"
      [] OTHER     -> "None"

BASE_URL == "https://www.sportschau.de/live-und-ergebnisse/fussball/"

AVAILABLE_SEASONS ==
    << SeasonLabel(Y2016, Y2017), SeasonLabel(Y2017, Y2018),
       SeasonLabel(Y2018, Y2019), SeasonLabel(Y2019, Y2020),
       SeasonLabel(Y2020, Y2021), SeasonLabel(Y2021, Y2022),
       SeasonLabel(Y2022, Y2023) >>

InAvailable(s) == \E i \in 1..Len(AVAILABLE_SEASONS) : AVAILABLE_SEASONS[i] = s

\* dict STATS in insertion order
STATS ==
    << [k |-> "zweikaempfe",  v |-> "statistik-zweikaempfe"],
       [k |-> "topspeed",     v |-> "statistik-laufleistung-topspeed"],
       [k |-> "laufleistung", v |-> "statistik-laufleistung"],
       [k |-> "sprints",      v |-> "statistik-laufleistung-sprints"] >>

STATS_get(k) == (CHOOSE i \in 1..Len(STATS) : STATS[i].k = k)

COLUMN_NAMES(c) ==
    CASE c = "Name"       -> "player_name"
      [] c = "Mannschaft" -> "team_name"
      [] c = "Spiele"     -> "games"
      [] c = "Gew."       -> "duels_won"
      [] c = "Verl."      -> "duels_lost"
      [] c = "Summe"      -> "duels"
      [] c = "Quote %"    -> "duels_won_pct"
      [] c = "Max. km/h"  -> "topspeed_kmh"
      [] c = "km"         -> "km"
      [] c = "km/Spiel"   -> "km/game"
      [] c = "Sprints"    -> "sprints"
      [] OTHER            -> c

\* ---------------------------------------------------------------- tables
\* A DataFrame: column names, the index, and one sequence of cells per row.
EmptyDF == [cols |-> <<>>, index |-> <<>>, rows |-> <<>>]

RECURSIVE Ascending(_)
Ascending(S) ==
    IF S = {} THEN <<>>
    ELSE LET m == CHOOSE x \in S : \A y \in S : x <= y
         IN  <<m>> \o Ascending(S \ {m})

\* the elements of s at the positions in S, in order
Pick(s, S) == LET idx == Ascending(S) IN [i \in 1..Len(idx) |-> s[idx[i]]]

HasCol(df, c) == \E i \in 1..Len(df.cols) : df.cols[i] = c

ColIndex(df, c) ==
    CHOOSE i \in 1..Len(df.cols) :
        df.cols[i] = c /\ \A j \in 1..(i - 1) : df.cols[j] # c

\* df.drop(c, axis=1)
DropCol(df, c) ==
    LET keep == {i \in 1..Len(df.cols) : df.cols[i] # c}
    IN  [cols  |-> Pick(df.cols, keep),
         index |-> df.index,
         rows  |-> [r \in 1..Len(df.rows) |-> Pick(df.rows[r], keep)]]

\* df[c] = value
SetCol(df, c, value) ==
    IF HasCol(df, c)
    THEN [df EXCEPT !.rows =
            [r \in 1..Len(df.rows) |->
                [df.rows[r] EXCEPT ![ColIndex(df, c)] = value]]]
    ELSE [df EXCEPT !.cols = Append(df.cols, c),
                    !.rows = [r \in 1..Len(df.rows) |-> Append(df.rows[r], value)]]

\* df.rename(columns=COLUMN_NAMES)
RenameCols(df) ==
    [df EXCEPT !.cols = [i \in 1..Len(df.cols) |-> COLUMN_NAMES(df.cols[i])]]

KeyCols == <<"Name", "Mannschaft">>

IsKeyCol(c) == \E i \in 1..Len(KeyCols) : KeyCols[i] = c

RowKey(df, row) == [i \in 1..Len(KeyCols) |-> row[ColIndex(df, KeyCols[i])]]

\* pandas raises KeyError when a column named in `on` is missing on a side
MergeKeyError(l, r) ==
    \E i \in 1..Len(KeyCols) : ~HasCol(l, KeyCols[i]) \/ ~HasCol(r, KeyCols[i])

\* pandas' suffixes ("_x", "_y") for a non-key column name present on both
\* sides; of the columns of the tables modelled only "Spiele" can overlap.
SuffixX(c) == IF c = "Spiele" THEN "Spiele_x" ELSE c
SuffixY(c) == IF c = "Spiele" THEN "Spiele_y" ELSE c

RECURSIVE JoinRows(_, _, _, _, _)
JoinRows(l, r, rest, i, j) ==
    IF i > Len(l.rows) THEN <<>>
    ELSE IF j > Len(r.rows) THEN JoinRows(l, r, rest, i + 1, 1)
    ELSE (IF RowKey(l, l.rows[i]) = RowKey(r, r.rows[j])
          THEN << l.rows[i] \o Pick(r.rows[j], rest) >>
          ELSE <<>>) \o JoinRows(l, r, rest, i, j + 1)

\* l.merge(r, on=["Name", "Mannschaft"]): the inner join, left order kept
InnerMerge(l, r) ==
    LET rest  == {i \in 1..Len(r.cols) : ~IsKeyCol(r.cols[i])}
        rcols == Pick(r.cols, rest)
        both(c) == /\ ~IsKeyCol(c)
                   /\ \E i \in 1..Len(l.cols) : l.cols[i] = c
                   /\ \E i \in 1..Len(rcols) : rcols[i] = c
        rows  == JoinRows(l, r, rest, 1, 1)
    IN  [cols  |-> [i \in 1..Len(l.cols) |->
                       IF both(l.cols[i]) THEN SuffixX(l.cols[i]) ELSE l.cols[i]]
                   \o [i \in 1..Len(rcols) |->
                       IF both(rcols[i]) THEN SuffixY(rcols[i]) ELSE rcols[i]],
         index |-> [i \in 1..Len(rows) |-> i - 1],
         rows  |-> rows]

\* The loop body of _merge_dfs with the drop of "Spiele" left out.
MergeStepKeepSpiele(df, next) == InnerMerge(df, next)

\* The loop body of _merge_dfs: drop a "Spiele" column, then join.
MergeStep(df, next) ==
    InnerMerge(df, IF HasCol(next, "Spiele") THEN DropCol(next, "Spiele") ELSE next)

RECURSIVE MergeFold(_, _, _)
MergeFold(df, dfs, i) ==
    IF i > Len(dfs) THEN [raised |-> "", df |-> RenameCols(df)]
    ELSE IF MergeKeyError(df, dfs[i]) THEN [raised |-> "KeyError", df |-> EmptyDF]
    ELSE MergeFold(MergeStep(df, dfs[i]), dfs, i + 1)

\* Sportschau._merge_dfs: `df = dfs[0]` raises IndexError on an empty list,
\* the merge raises KeyError.
_merge_dfs(dfs) ==
    IF Len(dfs) = 0 THEN [raised |-> "IndexError", df |-> EmptyDF]
    ELSE MergeFold(dfs[1], dfs, 2)

\* df.to_csv(path): a header row and one line per row, the index first
to_csv(df) ==
    [header |-> <<"">> \o df.cols,
     lines  |-> [i \in 1..Len(df.rows) |-> <<IntToStr(df.index[i])>> \o df.rows[i]]]

\* pd.read_csv(path, index_col=0)
read_csv(csv) ==
    [cols  |-> Tail(csv.header),
     index |-> [i \in 1..Len(csv.lines) |-> StrToInt(Head(csv.lines[i]))],
     rows  |-> [i \in 1..Len(csv.lines) |-> Tail(csv.lines[i])]]

\* ------------------------------------------------------- mappings (dicts)
EmptyMap == [x \in {} |-> x]

\* d[k] = v
MapSet(d, k, v) == [x \in (DOMAIN d) \cup {k} |-> IF x = k THEN v ELSE d[x]]

\* ---------------------------------------------------------------- the site
\* Season labels used as inputs: two of the allow-list and one that is not.
S2122 == SeasonLabel(Y2021, Y2022)
S2223 == SeasonLabel(Y2022, Y2023)
S2324 == SeasonLabel(Y2023, Y2024)

SeasonPool == {S2122, S2223, S2324}

\* An <option> of the season navigation: its text and its value, the value
\* given as the list value.split("/") yields.
Option(comp, label, seg) ==
    [text  |-> label,
     value |-> <<"", "live-und-ergebnisse", "fussball", comp, "se1", seg,
                 "statistik-laufleistung-topspeed", "">>]

SeasonSegs == {"2021-2022", "2022-2023"}

\* What the site serves for one season's four statistic pages.
Scenarios == {"full", "partial", "disjoint", "nokey", "nogames", "notable", "neterr"}

\* A site gives each season a scenario; it may not have 2022/2023 at all.
Sites ==
    { w \in [SeasonSegs -> Scenarios \cup {"absent"}] :
        /\ w["2021-2022"] # "absent"
        /\ w["2022-2023"] \in {"absent", "full", "nokey", "notable"} }

\* The sites of the behaviours that exercise the cache.
CacheSites ==
    { w \in Sites :
        \/ w["2021-2022"] = "full" /\ w["2022-2023"] = "full"
        \/ w["2021-2022"] = "partial" /\ w["2022-2023"] = "absent" }

\* The base page of a competition: an option for each season the site has,
\* newest first, 2023/2024 among them.
Page(web, comp) ==
    << Option(comp, S2324, "2023-2024") >>
    \o (IF web["2022-2023"] = "absent" THEN <<>>
        ELSE << Option(comp, S2223, "2022-2023") >>)
    \o << Option(comp, S2122, "2021-2022") >>

PlayerA == <<"A">>
PlayerB == <<"B">>
TeamT   == <<"T">>
Num(n)  == IntToStr(n)

\* The HTML table of one statistic page for the given players.
RawTable(stat, players) ==
    LET n == Len(players)
    IN  CASE stat = "statistik-zweikaempfe" ->
               [cols  |-> <<"#", "Name", "Mannschaft", "Spiele", "Gew.">>,
                index |-> [i \in 1..n |-> i - 1],
                rows  |-> [i \in 1..n |->
                            <<Num(i), players[i], TeamT, Num(10), Num(5)>>]]
          [] stat = "statistik-laufleistung-topspeed" ->
               [cols  |-> <<"#", "Unnamed: 1", "Name", "Mannschaft", "Max. km/h">>,
                index |-> [i \in 1..n |-> i - 1],
                rows  |-> [i \in 1..n |->
                            <<Num(i), <<>>, players[i], TeamT, Num(35)>>]]
          [] stat = "statistik-laufleistung" ->
               [cols  |-> <<"Name", "Mannschaft", "Spiele", "km">>,
                index |-> [i \in 1..n |-> i - 1],
                rows  |-> [i \in 1..n |-> <<players[i], TeamT, Num(10), Num(99)>>]]
          [] OTHER ->
               [cols  |-> <<"Name", "Mannschaft", "Spiele", "Sprints">>,
                index |-> [i \in 1..n |-> i - 1],
                rows  |-> [i \in 1..n |-> <<players[i], TeamT, Num(10), Num(7)>>]]

\* What a GET of a statistic page answers: a transport error, or a document
\* with a list of HTML tables (possibly none).
Serve(scn, stat) ==
    LET both == <<PlayerA, PlayerB>>
        doc(t) == [error |-> FALSE, tables |-> <<t>>]
    IN  CASE scn = "partial" /\ stat = "statistik-laufleistung" ->
               doc(RawTable(stat, <<PlayerA>>))
          [] scn = "disjoint" /\ stat = "statistik-zweikaempfe" ->
               doc(RawTable(stat, <<PlayerA>>))
          [] scn = "disjoint" /\ stat # "statistik-zweikaempfe" ->
               doc(RawTable(stat, <<PlayerB>>))
          [] scn = "nokey" /\ stat = "statistik-laufleistung" ->
               doc(DropCol(RawTable(stat, both), "Name"))
          [] scn = "nogames" /\ stat = "statistik-zweikaempfe" ->
               doc(DropCol(RawTable(stat, both), "Spiele"))
          [] scn = "notable" /\ stat = "statistik-laufleistung-topspeed" ->
               [error |-> FALSE, tables |-> <<>>]
          [] scn = "neterr" /\ stat = "statistik-laufleistung-sprints" ->
               [error |-> TRUE, tables |-> <<>>]
          [] OTHER -> doc(RawTable(stat, both))

\* f"{BASE_URL}{self.comp}/{season_link}/{stat_link}/", kept as its parts
Url(comp, season_link, stat_link) ==
    [base |-> BASE_URL, comp |-> comp, season_link |-> season_link,
     stat_link |-> stat_link]

HttpGet(web, url) == Serve(web[url.season_link[2]], url.stat_link)

\* read_data: `if c in df.columns: df = df.drop(c, axis=1)`
DropIfPresent(df, c) == IF HasCol(df, c) THEN DropCol(df, c) ELSE df

\* pd.read_html(url, ...): the request raises URLError, a page without a
\* table raises ValueError("No tables found"); otherwise the list of tables,
\* which is never empty.
read_html(resp) ==
    IF resp.error THEN [raised |-> "URLError", dfs |-> <<>>]
    ELSE IF Len(resp.tables) = 0 THEN [raised |-> "ValueError", dfs |-> <<>>]
    ELSE [raised |-> "", dfs |-> resp.tables]

\* read_data past pd.read_html: KeyError for an empty list, else the first
\* table without the columns "#" and "Unnamed: 1"
FirstTable(r) ==
    IF r.raised # "" THEN [raised |-> r.raised, df |-> EmptyDF]
    ELSE IF Len(r.dfs) = 0 THEN [raised |-> "KeyError", df |-> EmptyDF]
    ELSE [raised |-> "",
          df |-> DropIfPresent(DropIfPresent(r.dfs[1], "#"), "Unnamed: 1")]

\* Sportschau.read_data
read_data(web, url) == FirstTable(read_html(HttpGet(web, url)))

\* ------------------------------------------------------------ the collector
\* The object: its attributes, and in attrs the names of the attributes that
\* are set lazily (what hasattr answers).
NoObject ==
    [competition_id |-> <<>>, comp |-> "", base_url |-> <<>>, attrs |-> {},
     pagetree |-> <<>>, seasons |-> <<>>, urls |-> EmptyMap, data |-> EmptyMap]

\* The check of __init__ with a wrong test: every identifier is accepted.
InitRaisesNever(id) == FALSE

\* Sportschau.__init__: `if competition_id not in COMPS.keys()`
InitRaises(id) == ~InCOMPS(id)

InitErrorMessage ==
    [text |-> "Competition not availabe. Choose one of ", keys |-> COMPS_keys]

NoMessage == [text |-> "", keys |-> <<>>]

\* Sportschau.__init__ past the check
NewObject(id) ==
    [NoObject EXCEPT
        !.competition_id = id,
        !.comp = COMPS_get(id),
        !.base_url = <<BASE_URL, COMPS_get(id), "/", STATS[STATS_get("topspeed")].v>>]

\* set_seasons asks for the page whether or not it is cached.
NeedsBasePageAlways(obj) == TRUE

\* set_seasons: `if not hasattr(self, "pagetree")`
NeedsBasePage(obj) == "pagetree" \notin obj.attrs

\* Sportschau.get_base_url: requests.get either raises or answers the page.
\* requests counts the requests issued, gets the pages stored, regets the
\* requests issued although a page was already stored.
get_base_url(obj, web, netok) ==
    LET again == IF "pagetree" \in obj.attrs THEN 1 ELSE 0
    IN  IF ~netok
        THEN [self |-> obj, raised |-> "ConnectionError", requests |-> 1,
              gets |-> 0, regets |-> again]
        ELSE [self |-> [obj EXCEPT !.pagetree = Page(web, obj.comp),
                                   !.attrs = @ \cup {"pagetree"}],
              raised |-> "", requests |-> 1, gets |-> 1, regets |-> again]

\* dict[k] = v on a dict kept as a sequence of [k, v] in insertion order
RECURSIVE DictPut(_, _, _)
DictPut(d, k, v) ==
    IF Len(d) = 0 THEN << [k |-> k, v |-> v] >>
    ELSE IF Head(d).k = k THEN << [k |-> k, v |-> v] >> \o Tail(d)
    ELSE << Head(d) >> \o DictPut(Tail(d), k, v)

\* {opt.text: "/".join(opt["value"].split("/")[4:6]) for opt in options}
RECURSIVE OptionsDict(_, _)
OptionsDict(options, i) ==
    IF i = 0 THEN <<>>
    ELSE DictPut(OptionsDict(options, i - 1),
                 options[i].text, SubSeq(options[i].value, 5, 6))

SeasonUsable(entry) == InAvailable(entry.k)

\* The outcome of a step that issues no request.
NoRequest(obj) ==
    [self |-> obj, raised |-> "", requests |-> 0, gets |-> 0, regets |-> 0]

\* set_seasons past the page: the options of the page, the usable ones kept
SeasonsFromPage(r) ==
    IF r.raised # "" THEN r
    ELSE [r EXCEPT !.self.seasons =
                      SelectSeq(OptionsDict(r.self.pagetree, Len(r.self.pagetree)),
                                SeasonUsable),
                   !.self.attrs = @ \cup {"seasons"}]

\* Sportschau.set_seasons
set_seasons(obj, web, netok) ==
    SeasonsFromPage(IF NeedsBasePage(obj) THEN get_base_url(obj, web, netok)
                    ELSE NoRequest(obj))

DictKeys(d) == {d[i].k : i \in 1..Len(d)}

\* the urls of one season: {stat: url} in the order of STATS
SeasonUrls(comp, season_link) ==
    [i \in 1..Len(STATS) |->
        [k |-> STATS[i].k, v |-> Url(comp, season_link, STATS[i].v)]]

\* _set_urls: `if not hasattr(self, "urls"): self._init_url_dicts()`
UrlBase(o) ==
    IF "urls" \notin o.attrs THEN [s \in DictKeys(o.seasons) |-> <<>>] ELSE o.urls

RECURSIVE FillUrls(_, _, _)
\* _set_urls: the loop over self.seasons.items() from position i on;
\* self.urls.get(season)[stat] = ... raises TypeError for a season that is
\* not a key of self.urls, and what was assigned before stays.
FillUrls(o, urls, i) ==
    IF i > Len(o.seasons) THEN [urls |-> urls, raised |-> ""]
    ELSE IF o.seasons[i].k \notin DOMAIN urls
    THEN [urls |-> urls, raised |-> "TypeError"]
    ELSE FillUrls(o, [urls EXCEPT ![o.seasons[i].k] =
                                      SeasonUrls(o.comp, o.seasons[i].v)],
                  i + 1)

\* _set_urls: what the loop leaves in the collector; f is what the loop gave
WithUrls(r, f) ==
    [r EXCEPT !.self.urls = f.urls,
              !.self.attrs = @ \cup {"urls"},
              !.raised = f.raised]

\* _set_urls past set_seasons
UrlsFromSeasons(r) ==
    IF r.raised # "" THEN r
    ELSE WithUrls(r, FillUrls(r.self, UrlBase(r.self), 1))

\* Sportschau._set_urls (with _init_url_dicts)
_set_urls(obj, web, netok) ==
    UrlsFromSeasons(IF "seasons" \notin obj.attrs THEN set_seasons(obj, web, netok)
                    ELSE NoRequest(obj))

\* ------------------------------------------------------------ read_seasons
Warning(cid, season) ==
    [prefix |-> "Data for ", competition_id |-> cid, sep |-> " | ",
     season |-> season, suffix |-> " could not be read."]

RECURSIVE FetchStats(_, _, _, _, _)

\* The body of the inner loop of read_seasons past read_data: an error ends
\* the loop, a table is appended.
FetchNext(web, statUrls, j, dfs, fetched, r) ==
    IF r.raised # ""
    THEN [raised |-> r.raised, dfs |-> dfs, fetched |-> Append(fetched, statUrls[j].v)]
    ELSE FetchStats(web, statUrls, j + 1, Append(dfs, r.df),
                    Append(fetched, statUrls[j].v))

\* The inner loop of read_seasons: read_data for each statistic in turn.
FetchStats(web, statUrls, j, dfs, fetched) ==
    IF j > Len(statUrls) THEN [raised |-> "", dfs |-> dfs, fetched |-> fetched]
    ELSE FetchNext(web, statUrls, j, dfs, fetched, read_data(web, statUrls[j].v))

\* `except KeyError: pass`: the season is skipped without a warning.
MergeFailedSilent(acc, cid, season) == acc

\* read_seasons: `except KeyError: warnings.warn(...)`
MergeFailed(acc, cid, season) ==
    [acc EXCEPT !.warnings = Append(@, Warning(cid, season))]

\* read_seasons: the body of the try
Merged(acc, cid, season, df) ==
    [acc EXCEPT !.data =
        MapSet(@, season, SetCol(SetCol(df, "season", season),
                                 "competition_id", cid))]

\* read_seasons: the try around _merge_dfs; m is what _merge_dfs gave
MergeSeason(acc, cid, season, m) ==
    IF m.raised = "" THEN Merged(acc, cid, season, m.df)
    ELSE IF m.raised = "KeyError" THEN MergeFailed(acc, cid, season)
    ELSE [acc EXCEPT !.raised = m.raised]

RECURSIVE ReadLoop(_, _, _, _, _)

\* The body of the outer loop of read_seasons past the inner loop; f is what
\* the inner loop gave.
ReadSeason(obj, web, seasons, i, acc, f) ==
    IF f.raised # "" THEN [acc EXCEPT !.fetched = f.fetched, !.raised = f.raised]
    ELSE ReadLoop(obj, web, seasons, i + 1,
                  MergeSeason([acc EXCEPT !.fetched = f.fetched],
                              obj.competition_id, seasons[i], _merge_dfs(f.dfs)))

\* The outer loop of read_seasons over the seasons from position i on;
\* self.urls.get(season) is None for a season that is not a key.
ReadLoop(obj, web, seasons, i, acc) ==
    IF i > Len(seasons) \/ acc.raised # "" THEN acc
    ELSE IF seasons[i] \notin DOMAIN obj.urls
    THEN [acc EXCEPT !.raised = "AttributeError"]
    ELSE ReadSeason(obj, web, seasons, i, acc,
                    FetchStats(web, obj.urls[seasons[i]], 1, <<>>, acc.fetched))

\* [s for s in seasons if s in AVAILABLE_SEASONS]
FilterRequested(seasons) == SelectSeq(seasons, InAvailable)

\* iterating the dict self.seasons yields its keys in order
DictKeySeq(d) == [i \in 1..Len(d) |-> d[i].k]

\* f"{self.competition_id}_{season.replace('/', '-')}.csv"
SaveName(cid, season) == cid \o <<"_">> \o Replace(season, "/", "-") \o CsvSuffix

\* Sportschau.save_data on the directory dir
save_data(obj, dir) ==
    IF "data" \notin obj.attrs
    THEN [raised |-> "AttributeError", dir |-> dir, wrote |-> {}]
    ELSE LET cid   == obj.competition_id
             names == {SaveName(cid, k) : k \in DOMAIN obj.data}
         IN  [raised |-> "",
              dir |-> [n \in (DOMAIN dir) \cup names |->
                         IF n \in names
                         THEN to_csv(obj.data[CHOOSE k \in DOMAIN obj.data :
                                                 SaveName(cid, k) = n])
                         ELSE dir[n]],
              wrote |-> names]

\* read_seasons saves whenever save is set, also when the loop was left by
\* an error.
SavesAfterReadAlways(raised, save) == save

\* read_seasons: `if save: self.save_data()` is reached when the loop ends
SavesAfterRead(raised, save) == raised = "" /\ save

\* read_seasons: `if not hasattr(self, "urls")`
NeedsUrls(obj) == "urls" \notin obj.attrs

\* read_seasons: `if not hasattr(self, "urls"): self._set_urls()`; discovered
\* tells whether _set_urls was called.
Discovery(obj, web, netok) ==
    IF NeedsUrls(obj) THEN _set_urls(obj, web, netok) @@ [discovered |-> TRUE]
    ELSE NoRequest(obj) @@ [discovered |-> FALSE]

\* read_seasons: `self.data = {}`
ReadStart(o) == [o EXCEPT !.data = EmptyMap, !.attrs = @ \cup {"data"}]

\* read_seasons: the seasons to process
Todo(o, seasons, none) ==
    IF none THEN DictKeySeq(o.seasons) ELSE FilterRequested(seasons)

EmptyAcc == [data |-> EmptyMap, fetched |-> <<>>, warnings |-> <<>>, raised |-> ""]

\* read_seasons: `if save: self.save_data()`
SaveAfter(o, dir, raised, save) ==
    IF SavesAfterRead(raised, save) THEN save_data(o, dir)
    ELSE [raised |-> "", dir |-> dir, wrote |-> {}]

\* What read_seasons leaves: r of the discovery, l of the loop, sv of the save
ReadOutcome(r, o, l, sv) ==
    [self |-> o, raised |-> l.raised, requests |-> r.requests, gets |-> r.gets,
     regets |-> r.regets, discovered |-> r.discovered, fetched |-> l.fetched,
     warnings |-> l.warnings, dir |-> sv.dir, wrote |-> sv.wrote]

\* read_seasons past the loop; o is the collector with the tables read
ReadLooped(r, o, l, dir, save) ==
    ReadOutcome(r, o, l, SaveAfter(o, dir, l.raised, save))

\* read_seasons past `self.data = {}`
ReadStarted(r, o, l, dir, save) ==
    ReadLooped(r, [o EXCEPT !.data = l.data], l, dir, save)

\* read_seasons past the discovery
ReadDiscovered(r, dir, web, seasons, none, save) ==
    IF r.raised # ""
    THEN r @@ [fetched |-> <<>>, warnings |-> <<>>, dir |-> dir, wrote |-> {}]
    ELSE ReadStarted(r, ReadStart(r.self),
                     ReadLoop(ReadStart(r.self), web, Todo(r.self, seasons, none),
                              1, EmptyAcc),
                     dir, save)

\* Sportschau.read_seasons; none stands for seasons=None
read_seasons(obj, dir, web, netok, seasons, none, save) ==
    ReadDiscovered(Discovery(obj, web, netok), dir, web, seasons, none, save)

\* --------------------------------------------------------------- load_data
\* The key of load_data without the reversal of the "-" substitution.
LoadKeyRaw(stem, all_comps) ==
    IF all_comps THEN stem ELSE Split(stem, "_")[2]

\* The key load_data gives a file: file.stem.replace("-", "/"), or
\* file.stem.split("_")[1].replace("-", "/")
LoadKey(stem, all_comps) ==
    IF all_comps THEN Replace(stem, "-", "/")
    ELSE Replace(Split(stem, "_")[2], "-", "/")

\* The files load_data reads
LoadFiles(obj, dir, all_comps) ==
    {n \in DOMAIN dir :
        /\ MatchesCsvGlob(n)
        /\ all_comps \/ Contains(Stem(n), obj.competition_id)}

\* Every way to pick, for each key, one of the files that give that key: the
\* dict comprehension keeps the file glob yields last, in an order the file
\* system decides.
RECURSIVE Picks(_, _, _)
Picks(keys, files, all_comps) ==
    IF keys = {} THEN {EmptyMap}
    ELSE LET k == CHOOSE x \in keys : TRUE
         IN  { MapSet(p, k, n) :
                 p \in Picks(keys \ {k}, files, all_comps),
                 n \in {f \in files : LoadKey(Stem(f), all_comps) = k} }

\* Sportschau.load_data: the results it can have
load_data(obj, dir, all_comps) ==
    LET files == LoadFiles(obj, dir, all_comps)
    IN  IF ~all_comps /\ \E n \in files : Len(Split(Stem(n), "_")) < 2
        THEN { [self |-> obj, raised |-> "IndexError"] }
        ELSE LET keys == {LoadKey(Stem(n), all_comps) : n \in files}
             IN  { [self |-> [obj EXCEPT
                                !.data = [k \in keys |-> read_csv(dir[p[k]])],
                                !.attrs = @ \cup {"data"}],
                    raised |-> ""] : p \in Picks(keys, files, all_comps) }

\* ------------------------------------------------------------------- state
VARIABLES
    constructed,    \* a collector exists
    self,           \* the collector
    dir,            \* the cache directory: file name -> CSV content
    site,           \* the web site: the scenario of each season
    call,           \* the last operation called, its arguments and its outcome
    warnings,       \* the warnings the last operation emitted
    fetched,        \* the statistic urls the last operation requested, in order
    wrote,          \* the files the last operation wrote
    written,        \* the files the collector has written so far
    baseRequests,   \* how often the collector requested the base page
    baseGets,       \* how often the collector stored a fetched base page
    regets,         \* base page requests issued while a page was stored
    connErrors,     \* operations that raised ConnectionError
    discovery,      \* the last operation, if read_seasons: whether the url map
                    \* was populated when it was called, and whether it ran
                    \* _set_urls
    directGets,     \* direct calls of get_base_url
    ops,            \* methods called so far
    reads           \* calls of read_seasons so far

vars == << constructed, self, dir, site, call, warnings, fetched, wrote, written,
           baseRequests, baseGets, regets, connErrors, discovery, directGets, ops,
           reads >>

ConstructIds == {GER1, GER2, GER3, Unknown_Comp}

\* the explicit season lists passed to read_seasons
ReqLists == UNION { [1..n -> SeasonPool] : n \in 0..MaxReq }

Call(op, id, seasons, none, save, all_comps, raised, msg) ==
    [op |-> op, id |-> id, seasons |-> seasons, none |-> none, save |-> save,
     all_comps |-> all_comps, raised |-> raised, msg |-> msg]

NoCall == Call("", <<>>, <<>>, FALSE, FALSE, FALSE, "", NoMessage)

FullWeb == [seg \in SeasonSegs |-> "full"]

\* The table an earlier run of a collector of competition cid stored for a
\* season the site served in full.
StoredTable(cid, season) ==
    ReadLoop(_set_urls(NewObject(cid), FullWeb, TRUE).self, FullWeb, <<season>>,
             1, EmptyAcc).data[season]

\* The cache directory is empty, or holds what earlier runs of a GER1 and of
\* a GER2 collector saved for 2021/2022.
InitDirs ==
    { EmptyMap,
      [n \in {SaveName(GER1, S2122), SaveName(GER2, S2122)} |->
          IF n = SaveName(GER1, S2122) THEN to_csv(StoredTable(GER1, S2122))
          ELSE to_csv(StoredTable(GER2, S2122))] }

NoDiscovery == [populated |-> FALSE, ran |-> FALSE]

InitObject ==
    /\ constructed = FALSE
    /\ self = NoObject
    /\ call = NoCall
    /\ warnings = <<>>
    /\ fetched = <<>>
    /\ wrote = {}
    /\ written = {}
    /\ baseRequests = 0
    /\ baseGets = 0
    /\ regets = 0
    /\ connErrors = 0
    /\ discovery = NoDiscovery
    /\ directGets = 0
    /\ ops = 0
    /\ reads = 0

Init ==
    /\ InitObject
    /\ dir \in InitDirs
    /\ site \in CacheSites

Quiet ==
    /\ warnings' = <<>>
    /\ fetched' = <<>>
    /\ wrote' = {}
    /\ discovery' = NoDiscovery

\* requests.get answers (TRUE) or raises (FALSE); when no request is issued
\* there is only one outcome.
NetOutcomes(requests) == IF requests THEN BOOLEAN ELSE {TRUE}

\* Sportschau(competition_id)
Construct(id) ==
    /\ ~constructed
    /\ IF InitRaises(id)
       THEN /\ call' = Call("__init__", id, <<>>, FALSE, FALSE, FALSE,
                            "KeyError", InitErrorMessage)
            /\ UNCHANGED << constructed, self >>
       ELSE /\ call' = Call("__init__", id, <<>>, FALSE, FALSE, FALSE, "", NoMessage)
            /\ constructed' = TRUE
            /\ self' = NewObject(id)
    /\ Quiet
    /\ UNCHANGED << dir, site, written, baseRequests, baseGets, regets,
                    connErrors, directGets, ops, reads >>

\* What a discovery method leaves in the state.
Discovered(op, r) ==
    /\ self' = r.self
    /\ baseRequests' = baseRequests + r.requests
    /\ baseGets' = baseGets + r.gets
    /\ regets' = regets + r.regets
    /\ connErrors' = connErrors + (IF r.raised = "ConnectionError" THEN 1 ELSE 0)
    /\ call' = Call(op, <<>>, <<>>, FALSE, FALSE, FALSE, r.raised, NoMessage)

\* spo.get_base_url()
GetBaseUrl ==
    /\ constructed
    /\ ops < MaxOps
    /\ ops' = ops + 1
    /\ \E netok \in BOOLEAN :
         Discovered("get_base_url", get_base_url(self, site, netok))
    /\ directGets' = directGets + 1
    /\ Quiet
    /\ UNCHANGED << constructed, dir, site, written, reads >>

\* spo.set_seasons()
SetSeasons ==
    /\ constructed
    /\ ops < MaxOps
    /\ ops' = ops + 1
    /\ \E netok \in NetOutcomes(NeedsBasePage(self)) :
         Discovered("set_seasons", set_seasons(self, site, netok))
    /\ Quiet
    /\ UNCHANGED << constructed, dir, site, written, directGets, reads >>

\* spo._set_urls()
SetUrls ==
    /\ constructed
    /\ ops < MaxOps
    /\ ops' = ops + 1
    /\ \E netok \in NetOutcomes("seasons" \notin self.attrs /\ NeedsBasePage(self)) :
         Discovered("_set_urls", _set_urls(self, site, netok))
    /\ Quiet
    /\ UNCHANGED << constructed, dir, site, written, directGets, reads >>

\* What read_seasons leaves in the state.
Read(seasons, none, save, r) ==
    /\ self' = r.self
    /\ dir' = r.dir
    /\ baseRequests' = baseRequests + r.requests
    /\ baseGets' = baseGets + r.gets
    /\ regets' = regets + r.regets
    /\ connErrors' = connErrors + (IF r.raised = "ConnectionError" THEN 1 ELSE 0)
    /\ discovery' = [populated |-> "urls" \in self.attrs, ran |-> r.discovered]
    /\ warnings' = r.warnings
    /\ fetched' = r.fetched
    /\ wrote' = r.wrote
    /\ written' = written \cup r.wrote
    /\ call' = Call("read_seasons", <<>>, seasons, none, save, FALSE,
                    r.raised, NoMessage)

\* spo.read_seasons(seasons, save); none stands for seasons=None
ReadSeasons(seasons, none, save) ==
    /\ constructed
    /\ ops < MaxOps
    /\ reads < MaxReads
    /\ ops' = ops + 1
    /\ reads' = reads + 1
    /\ \E netok \in NetOutcomes(/\ NeedsUrls(self)
                               /\ "seasons" \notin self.attrs
                               /\ NeedsBasePage(self)) :
         Read(seasons, none, save,
              read_seasons(self, dir, site, netok, seasons, none, save))
    /\ UNCHANGED << constructed, site, directGets >>

\* What save_data leaves in the state.
Saved(r) ==
    /\ dir' = r.dir
    /\ wrote' = r.wrote
    /\ written' = written \cup r.wrote
    /\ call' = Call("save_data", <<>>, <<>>, FALSE, FALSE, FALSE, r.raised, NoMessage)

\* spo.save_data()
SaveData ==
    /\ constructed
    /\ ops < MaxOps
    /\ ops' = ops + 1
    /\ Saved(save_data(self, dir))
    /\ warnings' = <<>>
    /\ fetched' = <<>>
    /\ discovery' = NoDiscovery
    /\ UNCHANGED << constructed, self, site, baseRequests, baseGets, regets,
                    connErrors, directGets, reads >>

\* spo.load_data(all_comps)
LoadData(all_comps) ==
    /\ constructed
    /\ ops < MaxOps
    /\ ops' = ops + 1
    /\ \E r \in load_data(self, dir, all_comps) :
           /\ self' = r.self
           /\ call' = Call("load_data", <<>>, <<>>, FALSE, FALSE, all_comps,
                           r.raised, NoMessage)
    /\ Quiet
    /\ UNCHANGED << constructed, dir, site, written, baseRequests, baseGets,
                    regets, connErrors, directGets, reads >>

\* Discovery and reading.
NextFetch ==
    \/ \E id \in ConstructIds : Construct(id)
    \/ GetBaseUrl
    \/ SetSeasons
    \/ SetUrls
    \/ \E seasons \in ReqLists, save \in BOOLEAN : ReadSeasons(seasons, FALSE, save)
    \/ \E save \in BOOLEAN : ReadSeasons(<<>>, TRUE, save)

\* The cache.
NextCache ==
    \/ SaveData
    \/ \E all_comps \in BOOLEAN : LoadData(all_comps)

Next == NextFetch \/ NextCache

\* Every method of the collector, on the sites of CacheSites.
Spec == Init /\ [][Next]_vars

InitFetch ==
    /\ InitObject
    /\ dir = EmptyMap
    /\ site \in Sites

\* Discovery and reading only, on every site of Sites.
SpecFetch == InitFetch /\ [][NextFetch]_vars

\* ---------------------------------------------------------------- claims
KnownIds == {GER1, GER2}

\* "YYYY/YYYY"
IsSeasonLabel(s) ==
    /\ Len(s) = 9
    /\ s[5] = "/"
    /\ \A i \in (1..9) \ {5} : IsDigit(s[i])

SeqRange(q) == {q[i] : i \in 1..Len(q)}

\* the requested labels that are in the allow-list
AllowedRequested == {s \in SeqRange(call.seasons) : InAvailable(s)}

\* the seasons the last read_seasons call had to process, in order
Processed ==
    IF call.none THEN DictKeySeq(self.seasons)
    ELSE SelectSeq(call.seasons, InAvailable)

Occurrences(q, x) == Cardinality({i \in 1..Len(q) : q[i] = x})

\* the file name the spec gives the table of a competition and a season
ExpectedFile(cid, season) ==
    cid \o <<"_">> \o [i \in 1..Len(season) |->
                         IF season[i] = "/" THEN "-" ELSE season[i]] \o CsvSuffix

\* the four tables the site serves for a season, as read_data returns them
SeasonTables(s) ==
    [i \in 1..Len(self.urls[s]) |-> read_data(site, self.urls[s][i].v).df]

\* the (player name, team name) pairs of a table
KeySet(df, name, team) ==
    IF HasCol(df, name) /\ HasCol(df, team)
    THEN {<<df.rows[r][ColIndex(df, name)], df.rows[r][ColIndex(df, team)]>> :
            r \in 1..Len(df.rows)}
    ELSE {}

SharedKeys(s) ==
    {k \in KeySet(SeasonTables(s)[1], "Name", "Mannschaft") :
        \A i \in 1..Len(SeasonTables(s)) :
            k \in KeySet(SeasonTables(s)[i], "Name", "Mannschaft")}

LacksJoinColumn(s) ==
    \E i \in 1..Len(SeasonTables(s)) :
        ~HasCol(SeasonTables(s)[i], "Name") \/ ~HasCol(SeasonTables(s)[i], "Mannschaft")

WarningsFor(s) ==
    Cardinality({i \in 1..Len(warnings) :
                    /\ warnings[i].competition_id = self.competition_id
                    /\ warnings[i].season = s})

ColCount(df, c) == Cardinality({i \in 1..Len(df.cols) : df.cols[i] = c})

\* C1: constructing with an identifier other than GER1 and GER2 raises a
\* KeyError whose message lists GER1 and GER2 and produces no collector;
\* constructing with GER1 or GER2 raises nothing and produces the collector
\* of that competition.
C1_ConstructionContract ==
    call.op = "__init__" =>
        /\ call.id \in KnownIds =>
              /\ call.raised = ""
              /\ constructed
              /\ self.competition_id = call.id
        /\ call.id \notin KnownIds =>
              /\ call.raised = "KeyError"
              /\ call.msg.keys = <<GER1, GER2>>
              /\ ~constructed
              /\ self = NoObject

C1_Witness ==
    /\ call.op = "__init__"
    /\ call.id = Unknown_Comp
    /\ call.raised = "KeyError"
    /\ ~constructed

\* C2: after read_seasons with an explicit list and save on, in which no
\* fetch failed and no merge failed, the call has returned, the result set
\* has exactly the requested allow-listed labels as keys, and for each of
\* them the file {competition_id}_{season with - for /}.csv exists.
C2_ExplicitReadPersists ==
    ( /\ call.op = "read_seasons"
      /\ ~call.none
      /\ call.save
      /\ call.raised \notin {"ConnectionError", "URLError", "ValueError", "KeyError"}
      /\ warnings = <<>> )
    => /\ call.raised = ""
       /\ DOMAIN self.data = AllowedRequested
       /\ \A s \in AllowedRequested :
             ExpectedFile(self.competition_id, s) \in DOMAIN dir

\* C3: when the collector has just persisted its result set (save_data, or
\* read_seasons with save on) and load_data is then called for the
\* configured competition only, every allow-listed season label of the
\* persisted result set is a key of the loaded mapping, and its table has
\* the columns and rows of the table that was written.
C3_SaveLoadRoundTrip ==
    [][ ( /\ call.raised = ""
          /\ \/ call.op = "save_data"
             \/ call.op = "read_seasons" /\ call.save
          /\ call'.op = "load_data"
          /\ ~call'.all_comps )
        => /\ call'.raised = ""
           /\ \A s \in DOMAIN self.data :
                 InAvailable(s) =>
                    /\ s \in DOMAIN self'.data
                    /\ self'.data[s].cols = self.data[s].cols
                    /\ self'.data[s].rows = self.data[s].rows ]_vars

C3_Witness ==
    /\ call.op = "load_data"
    /\ ~call.all_comps
    /\ call.raised = ""
    /\ \E s \in DOMAIN self.data :
          /\ InAvailable(s)
          /\ ExpectedFile(self.competition_id, s) \in written
          /\ Len(self.data[s].rows) > 0

\* C4 as claimed: a season whose four tables share no (player name, team
\* name) rows is omitted from the result of read_seasons and triggers
\* exactly one warning naming the competition and the season (stated for
\* the seasons the call processes once).
C4_NoSharedRowsOmitted ==
    (call.op = "read_seasons" /\ call.raised = "") =>
        \A s \in SeqRange(Processed) :
            (SharedKeys(s) = {} /\ Occurrences(Processed, s) = 1) =>
                /\ s \notin DOMAIN self.data
                /\ WarningsFor(s) = 1

\* C4 as amended: a season one of whose four tables lacks the player name
\* or the team name column is omitted from the result of read_seasons, and
\* warnings.warn is called for it, naming the competition and the season,
\* once each time it is processed; every other season, also one whose
\* tables share no rows, is in the result (with an empty table when no
\* rows are shared) and triggers no warning.
C4_MissingJoinColumnOmitted ==
    (call.op = "read_seasons" /\ call.raised = "") =>
        \A s \in SeqRange(Processed) :
            IF LacksJoinColumn(s)
            THEN /\ s \notin DOMAIN self.data
                 /\ WarningsFor(s) = Occurrences(Processed, s)
            ELSE /\ s \in DOMAIN self.data
                 /\ WarningsFor(s) = 0
                 /\ SharedKeys(s) = {} => Len(self.data[s].rows) = 0

C4_Witness ==
    /\ call.op = "read_seasons"
    /\ call.raised = ""
    /\ \E s \in SeqRange(Processed) :
          /\ LacksJoinColumn(s)
          /\ s \notin DOMAIN self.data
          /\ WarningsFor(s) = 1
    /\ \E s \in SeqRange(Processed) : s \in DOMAIN self.data

\* C5: read_seasons with an explicit list raises no error on account of a
\* requested label, warns about no label outside the allow-list, requests
\* pages only for requested allow-listed labels, and the keys of its result
\* are among the requested allow-listed labels.
C5_UnusableLabelsDropped ==
    (call.op = "read_seasons" /\ ~call.none) =>
        /\ call.raised \notin {"AttributeError", "TypeError"}
        /\ \A i \in 1..Len(warnings) : warnings[i].season \in AllowedRequested
        /\ \A i \in 1..Len(fetched) :
              \E s \in AllowedRequested :
                  s \in DOMAIN self.urls /\
                  \E j \in 1..Len(self.urls[s]) : self.urls[s][j].v = fetched[i]
        /\ DOMAIN self.data \subseteq AllowedRequested

\* the csv files of the cache directory
CacheFiles == {n \in DOMAIN dir : MatchesCsvGlob(n)}

\* C6: load_data(all_comps=True) returns one entry per cache file, keyed
\* "<competition>_<season label>"; load_data(all_comps=False) returns the
\* files of the configured competition and only those, keyed by the season
\* label.
C6_LoadKeys ==
    (call.op = "load_data" /\ call.raised = "") =>
        IF call.all_comps
        THEN /\ Cardinality(DOMAIN self.data) = Cardinality(CacheFiles)
             /\ \A k \in DOMAIN self.data :
                   \E c \in KnownIds, n \in CacheFiles :
                       /\ IsSeasonLabel(SubSeq(k, Len(c) + 2, Len(k)))
                       /\ k = c \o <<"_">> \o SubSeq(k, Len(c) + 2, Len(k))
                       /\ n = ExpectedFile(c, SubSeq(k, Len(c) + 2, Len(k)))
                       /\ self.data[k] = read_csv(dir[n])
        ELSE /\ \A k \in DOMAIN self.data :
                   /\ IsSeasonLabel(k)
                   /\ ExpectedFile(self.competition_id, k) \in CacheFiles
                   /\ self.data[k] =
                        read_csv(dir[ExpectedFile(self.competition_id, k)])
             /\ \A n \in CacheFiles :
                   (SubSeq(n, 1, Len(self.competition_id) + 1)
                       = self.competition_id \o <<"_">>)
                   => \E k \in DOMAIN self.data :
                         n = ExpectedFile(self.competition_id, k)

\* the merged table of season s has the (player, team) pairs found in all
\* four tables served for s, and no column renamed by a collision
InnerJoinOfAll(s) ==
    /\ KeySet(self.data[s], "player_name", "team_name") = SharedKeys(s)
    /\ \A i \in 1..Len(self.data[s].cols) :
          /\ self.data[s].cols[i] \notin {"Spiele_x", "Spiele_y", "Spiele"}
          /\ ColCount(self.data[s], self.data[s].cols[i]) = 1

\* C7: each table read_seasons has merged has a row for a (player, team)
\* pair exactly if the pair is in all four tables served for the season, no
\* column was renamed by a collision, and it has exactly one games column.
C7_MergeIsInnerJoin ==
    call.op = "read_seasons" =>
        \A s \in DOMAIN self.data :
            /\ InnerJoinOfAll(s)
            /\ ColCount(self.data[s], "games") = 1

\* C7, amended: each table read_seasons has merged has a row for a (player,
\* team) pair exactly if the pair is in all four tables served for the
\* season, no column was renamed by a collision, and it has exactly one
\* games column when the first of the four tables has a "Spiele" column
\* and none when it has not.
C7_GamesColumnOfFirstTable ==
    call.op = "read_seasons" =>
        \A s \in DOMAIN self.data :
            /\ InnerJoinOfAll(s)
            /\ ColCount(self.data[s], "games") =
                  (IF HasCol(SeasonTables(s)[1], "Spiele") THEN 1 ELSE 0)

C7_Witness ==
    /\ call.op = "read_seasons"
    /\ \E s \in DOMAIN self.data :
          /\ Len(self.data[s].rows) = 1
          /\ Len(SeasonTables(s)[1].rows) = 2
          /\ \E i \in 2..Len(SeasonTables(s)) : HasCol(SeasonTables(s)[i], "Spiele")
          /\ ColCount(self.data[s], "games") = 1

\* the errors a fetch of a statistic page can raise
FetchErrors == {"URLError", "ValueError", "KeyError"}

\* the number of seasons whose four pages were all fetched
SeasonsFetched == (Len(fetched) - 1) \div Len(STATS)

\* C8: when a fetch of a statistic page fails inside read_seasons, the call
\* raises that error; the failed request is the last one issued, after the
\* requests of the call in their order with none left out; the call writes
\* no file; and the seasons merged before the failure are in the
\* collector's result set.
C8_FetchFailureAborts ==
    (call.op = "read_seasons" /\ call.raised \in FetchErrors) =>
        /\ wrote = {}
        /\ Len(fetched) > 0
        /\ read_data(site, fetched[Len(fetched)]).raised = call.raised
        /\ \A i \in 1..Len(fetched) :
              /\ i < Len(fetched) => read_data(site, fetched[i]).raised = ""
              /\ fetched[i] =
                   self.urls[Processed[((i - 1) \div Len(STATS)) + 1]]
                            [((i - 1) % Len(STATS)) + 1].v
        /\ DOMAIN self.data =
              {Processed[j] : j \in {i \in 1..SeasonsFetched :
                                        ~LacksJoinColumn(Processed[i])}}

C8_Witness ==
    /\ call.op = "read_seasons"
    /\ call.raised \in FetchErrors
    /\ call.save
    /\ SeasonsFetched = 1
    /\ DOMAIN self.data # {}
    /\ Len(Processed) = 2

\* read_seasons ran discovery only if the url map was not populated
DiscoveryOnlyWithoutUrls ==
    call.op = "read_seasons" => ~(discovery.populated /\ discovery.ran)

\* C9: as long as get_base_url is not called directly, the collector
\* requests the base page at most once in its lifetime, so only one
\* operation issues the request; it is stored at most once and not
\* requested once stored; and read_seasons runs discovery only when the url
\* map is not populated.
C9_BasePageFetchedOnce ==
    directGets = 0 =>
        /\ baseRequests <= 1
        /\ baseGets <= 1
        /\ regets = 0
        /\ DiscoveryOnlyWithoutUrls

\* C9, amended: as long as get_base_url is not called directly, the
\* collector stores a fetched base page at most once and issues no request
\* for it once it is stored; every other request it issued failed with a
\* connection error, one in each operation that raised it; the page is
\* cached exactly when a request succeeded; and read_seasons runs discovery
\* only when the url map is not populated.
C9_BasePageStoredOnce ==
    directGets = 0 =>
        /\ baseGets <= 1
        /\ regets = 0
        /\ baseRequests = baseGets + connErrors
        /\ (baseGets = 1) <=> ("pagetree" \in self.attrs)
        /\ DiscoveryOnlyWithoutUrls

\* a request failed, a later operation repeated it and stored the page, and
\* a read_seasons called with the url map populated ran no discovery
C9_Witness ==
    /\ directGets = 0
    /\ baseRequests = 2
    /\ baseGets = 1
    /\ call.op = "read_seasons"
    /\ call.raised = ""
    /\ discovery.populated
    /\ ~discovery.ran
    /\ fetched # <<>>

\* C10: every file the collector has written is named
\* {competition_id}_{season with - for /}.csv for the collector's
\* competition and a "YYYY/YYYY" season label, and every row of it carries
\* that competition and that season.
C10_WrittenFileNames ==
    \A n \in written :
        \E k \in 1..Len(n) :
            LET season == Replace(SubSeq(Stem(n), k, Len(Stem(n))), "-", "/")
                df     == read_csv(dir[n])
            IN  /\ IsSeasonLabel(season)
                /\ n = ExpectedFile(self.competition_id, season)
                /\ \A r \in 1..Len(df.rows) :
                      /\ df.rows[r][ColIndex(df, "season")] = season
                      /\ df.rows[r][ColIndex(df, "competition_id")]
                            = self.competition_id

====
